---- MODULE Spec2Model ----
(***************************************************************************)
(* Model of greener-reporter-junitxml (src/main.go): one run of the CLI    *)
(* action `run`, which configures a Reporter, creates a session on the     *)
(* Greener ingress, reads and parses a JUnit XML report and submits the    *)
(* test cases.                                                             *)
(*                                                                         *)
(* Text that the program cuts, trims, converts or concatenates (label      *)
(* lists, XML attribute text, failure messages, outputs, the endpoint) is  *)
(* a sequence of one-character strings.  Text that is only carried along   *)
(* (names, ids, descriptions) is a TLA+ string.  A Go nil pointer is the   *)
(* empty sequence and a non-nil pointer a one-element sequence.            *)
(***************************************************************************)
EXTENDS Integers, Sequences, FiniteSets, TLC

VARIABLES
    pc,          \* position inside run(): the next statement block to execute
    flags,       \* the command line values read at src/main.go:266-272
    reporter,    \* the Reporter built by NewReporter (zero value before)
    xmlData,     \* the bytes read from the file or stdin, as a document
    testsuites,  \* the TestSuites value filled by xml.Unmarshal
    testcases,   \* the []TestcaseRequest built by submitResults
    requests,    \* every HTTP request handed to client.Do, in order
    responses,   \* the outcome of each of those requests, in order
    err          \* the error returned by run(); chain = <<>> is nil

vars == <<pc, flags, reporter, xmlData, testsuites, testcases, requests, responses, err>>

----------------------------------------------------------------------------
(* Bounds of the enumerated inputs.                                        *)

MaxLen == 4      \* longest label list given to parseLabels
MaxSuites == 2   \* most <testsuite> elements of an enumerated report
MaxCases == 2    \* most <testcase> elements of an enumerated suite

----------------------------------------------------------------------------
(* Text helpers.                                                           *)

IsSpace(c) == c \in {" ", "\t", "\n", "\r"}

\* strings.TrimSpace
RECURSIVE TrimLeft(_)
TrimLeft(s) ==
    IF s # <<>> /\ IsSpace(Head(s)) THEN TrimLeft(Tail(s)) ELSE s

RECURSIVE TrimRight(_)
TrimRight(s) ==
    IF s # <<>> /\ IsSpace(s[Len(s)]) THEN TrimRight(SubSeq(s, 1, Len(s) - 1)) ELSE s

TrimSpace(s) == TrimRight(TrimLeft(s))

\* position of the first occurrence of c in s, 0 when there is none
IndexOf(s, c) ==
    IF \E i \in 1..Len(s) : s[i] = c
    THEN CHOOSE i \in 1..Len(s) : s[i] = c /\ \A j \in 1..(i - 1) : s[j] # c
    ELSE 0

\* strings.SplitSeq(s, sep): the pieces between the separators, in order
RECURSIVE Split(_, _)
Split(s, sep) ==
    LET i == IndexOf(s, sep)
    IN  IF i = 0 THEN <<s>>
        ELSE <<SubSeq(s, 1, i - 1)>> \o Split(SubSeq(s, i + 1, Len(s)), sep)

\* Cut at the last separator instead of the first
CutLast(s, sep) ==
    IF \E i \in 1..Len(s) : s[i] = sep
    THEN LET i == CHOOSE i \in 1..Len(s) : s[i] = sep /\ \A j \in (i + 1)..Len(s) : s[j] # sep
         IN  [before |-> SubSeq(s, 1, i - 1), after |-> SubSeq(s, i + 1, Len(s)), ok |-> TRUE]
    ELSE [before |-> s, after |-> <<>>, ok |-> FALSE]

\* strings.Cut(s, sep)
Cut(s, sep) ==
    LET i == IndexOf(s, sep)
    IN  IF i = 0 THEN [before |-> s, after |-> <<>>, ok |-> FALSE]
        ELSE [before |-> SubSeq(s, 1, i - 1),
              after  |-> SubSeq(s, i + 1, Len(s)),
              ok     |-> TRUE]

\* strings.TrimSuffix(s, "/")
TrimSuffixSlash(s) ==
    IF s # <<>> /\ s[Len(s)] = "/" THEN SubSeq(s, 1, Len(s) - 1) ELSE s

----------------------------------------------------------------------------
(* parseLabels                                                             *)

RECURSIVE LabelsOf(_)
LabelsOf(tokens) ==
    IF tokens = <<>> THEN <<>>
    ELSE LET labelStr == TrimSpace(Head(tokens))
             c == Cut(labelStr, "=")
         IN  IF labelStr = <<>> THEN LabelsOf(Tail(tokens))
             ELSE IF c.ok
                  THEN <<[Key |-> c.before, Value |-> c.after]>> \o LabelsOf(Tail(tokens))
                  ELSE <<[Key |-> labelStr, Value |-> <<>>]>> \o LabelsOf(Tail(tokens))

parseLabels(labelsStr) ==
    IF labelsStr = <<>> THEN <<>> ELSE LabelsOf(Split(labelsStr, ","))

----------------------------------------------------------------------------
(* encoding/xml: what xml.Unmarshal does with a document for the struct    *)
(* tags of TestSuites, TestSuite and TestCase.                             *)
(*                                                                         *)
(* A document is [wellFormed, root, suites].  Each suite element has a     *)
(* name, the text of its attributes (<<>> when the attribute is absent,    *)
(* <<text>> when present) and its testcase elements.                       *)

Digits == <<"0", "1", "2", "3", "4", "5", "6", "7", "8", "9">>

IsDigit(c) == \E i \in 1..10 : Digits[i] = c

DigitVal(c) == (CHOOSE i \in 1..10 : Digits[i] = c) - 1

RECURSIVE DecValue(_)
DecValue(s) ==
    IF s = <<>> THEN 0
    ELSE 10 * DecValue(SubSeq(s, 1, Len(s) - 1)) + DigitVal(s[Len(s)])

\* strconv.ParseInt(s, 10, 64): an optional sign followed by one or more
\* decimal digits.  Its range error needs 19 digits or more, which no
\* attribute text of the model has.
ParseInt(s) ==
    LET signed == s # <<>> /\ Head(s) \in {"+", "-"}
        body   == IF signed THEN Tail(s) ELSE s
        val    == IF signed /\ Head(s) = "-" THEN 0 - DecValue(body) ELSE DecValue(body)
    IN  IF body = <<>> \/ \E i \in 1..Len(body) : ~IsDigit(body[i])
        THEN [ok |-> FALSE, val |-> 0]
        ELSE [ok |-> TRUE, val |-> val]

\* IntAttr with empty text given to ParseInt as well
IntAttrEmptyFails(attr) ==
    IF attr = <<>> THEN [ok |-> TRUE, val |-> 0]
    ELSE ParseInt(TrimSpace(attr[1]))

\* copyValue for a field of kind int tagged `xml:"...,attr"`: an absent
\* attribute leaves the zero value, empty text sets 0, any other text goes
\* through ParseInt after TrimSpace and its error fails the Unmarshal.
IntAttr(attr) ==
    IF attr = <<>> THEN [ok |-> TRUE, val |-> 0]
    ELSE IF attr[1] = <<>> THEN [ok |-> TRUE, val |-> 0]
    ELSE ParseInt(TrimSpace(attr[1]))

\* copyValue for a field of kind string tagged `xml:"...,attr"`: the text is
\* stored as it is; it cannot fail.
StringAttr(attr) ==
    IF attr = <<>> THEN [ok |-> TRUE, val |-> <<>>]
    ELSE [ok |-> TRUE, val |-> attr[1]]

\* type TestCase: the element's attributes and detail children
TestCase(e) ==
    [Name      |-> e.name,
     Classname |-> e.classname,
     Failure   |-> e.failure,
     Error     |-> e.error,
     Skipped   |-> e.skipped]

\* type TestSuite: the fields of one <testsuite> element
TestSuite(e) ==
    [Name      |-> e.name,
     Tests     |-> IntAttr(e.attrs.tests).val,
     Failures  |-> IntAttr(e.attrs.failures).val,
     Errors    |-> IntAttr(e.attrs.errors).val,
     Skipped   |-> IntAttr(e.attrs.skipped).val,
     Time      |-> StringAttr(e.attrs.time).val,
     Timestamp |-> StringAttr(e.attrs.timestamp).val,
     TestCases |-> [j \in 1..Len(e.cases) |-> TestCase(e.cases[j])]]

\* whether every attribute of the suite element converts to its field
SuiteAttrsOK(e) ==
    /\ IntAttr(e.attrs.tests).ok
    /\ IntAttr(e.attrs.failures).ok
    /\ IntAttr(e.attrs.errors).ok
    /\ IntAttr(e.attrs.skipped).ok
    /\ StringAttr(e.attrs.time).ok
    /\ StringAttr(e.attrs.timestamp).ok

\* type TestSuites; the zero value is what `var testsuites TestSuites` holds
ZeroTestSuites == [TestSuites |-> <<>>]

\* xml.Unmarshal(xmlData, &testsuites)
XmlUnmarshal(doc) ==
    IF ~doc.wellFormed THEN [ok |-> FALSE, val |-> ZeroTestSuites]
    ELSE IF doc.root # "testsuites" THEN [ok |-> FALSE, val |-> ZeroTestSuites]
    ELSE IF \E i \in 1..Len(doc.suites) : ~SuiteAttrsOK(doc.suites[i])
         THEN [ok |-> FALSE, val |-> ZeroTestSuites]
         ELSE [ok |-> TRUE,
               val |-> [TestSuites |-> [i \in 1..Len(doc.suites) |-> TestSuite(doc.suites[i])]]]

----------------------------------------------------------------------------
(* encoding/json: a marshalled struct is the function from the keys that   *)
(* are written to their values; a field tagged omitempty is left out when  *)
(* it holds its zero value.                                                *)

EmptyObject == [k \in {} |-> 0]

Field(key, value) == key :> value

OmitEmpty(key, value, zero) == IF value = zero THEN EmptyObject ELSE key :> value

\* json.Marshal of a Label
MarshalLabel(l) == Field("key", l.Key) @@ OmitEmpty("value", l.Value, <<>>)

\* json.Marshal of a SessionRequest
MarshalSessionRequest(req) ==
    OmitEmpty("id", req.Id, "")
    @@ OmitEmpty("description", req.Description, "")
    @@ OmitEmpty("labels", [i \in 1..Len(req.Labels) |-> MarshalLabel(req.Labels[i])], <<>>)
    @@ OmitEmpty("baggage", req.Baggage, EmptyObject)

\* json.Marshal of a TestcaseRequest
MarshalTestcase(t) ==
    Field("sessionId", t.SessionId)
    @@ Field("testcaseName", t.TestcaseName)
    @@ OmitEmpty("testcaseClassname", t.TestcaseClassname, "")
    @@ OmitEmpty("testsuite", t.Testsuite, "")
    @@ Field("status", t.Status)
    @@ OmitEmpty("output", t.Output, <<>>)

\* MarshalTestcasesRequest that writes the first test case only
MarshalTestcasesRequestFirstOnly(req) ==
    Field("testcases", [i \in 1..1 |-> MarshalTestcase(req.Testcases[i])])

\* json.Marshal of a TestcasesRequest
MarshalTestcasesRequest(req) ==
    Field("testcases", [i \in 1..Len(req.Testcases) |-> MarshalTestcase(req.Testcases[i])])

\* json.Unmarshal of the --session-baggage text into map[string]any, for the
\* texts the model feeds it
JsonUnmarshalMap(text) ==
    CASE text = "{}"            -> [ok |-> TRUE, val |-> EmptyObject]
      [] text = "{\"k\":\"v\"}" -> [ok |-> TRUE, val |-> Field("k", "v")]
      [] OTHER                  -> [ok |-> FALSE, val |-> EmptyObject]

\* DecodeSessionResponse with the decoding error dropped
DecodeSessionResponseLenient(body) ==
    [ok |-> TRUE,
     val |-> [Id |-> IF "id" \in DOMAIN body.fields THEN body.fields["id"] ELSE ""]]

\* json.NewDecoder(body).Decode(&sessionResp): a body that is not a JSON
\* object fails; a missing "id" leaves the zero value
DecodeSessionResponse(body) ==
    IF ~body.isObject THEN [ok |-> FALSE, val |-> [Id |-> ""]]
    ELSE [ok |-> TRUE,
          val |-> [Id |-> IF "id" \in DOMAIN body.fields THEN body.fields["id"] ELSE ""]]

----------------------------------------------------------------------------
(* Errors and HTTP.                                                        *)

StatusCreated == 201

NoStatus == 0

NoBody == [isObject |-> FALSE, fields |-> EmptyObject, text |-> ""]

\* the nil error
NoError == [chain |-> <<>>, status |-> NoStatus, body |-> NoBody]

\* fmt.Errorf("<label>: %w", ...): chain lists the labels from the outermost
\* in; status and body are those printed by the "... failed" messages
Errorf(chain, status, body) == [chain |-> chain, status |-> status, body |-> body]

\* IsCreated that takes every 2xx status for success
IsCreatedAny2xx(status) == status >= 200 /\ status < 300

\* resp.StatusCode != http.StatusCreated is the failure test of both calls
IsCreated(status) == status = StatusCreated

SessionsPath == "/api/v1/ingress/sessions"

TestcasesPath == "/api/v1/ingress/testcases"

\* url.Parse inside http.NewRequest rejects a URL that holds an ASCII
\* control character
IsControl(c) == c \in {"\t", "\n", "\r"}

ValidURL(s) == \A i \in 1..Len(s) : ~IsControl(s[i])

\* http.NewRequest("POST", r.endpoint+path, body) with the two headers set
NewRequest(r, path, body) ==
    [method |-> "POST", base |-> r.endpoint, path |-> path,
     contentType |-> "application/json", apiKey |-> r.apiKey, body |-> body]

----------------------------------------------------------------------------
(* Reporter                                                                *)

\* the Reporter struct before NewReporter has run
ZeroReporter ==
    [endpoint |-> <<>>, apiKey |-> "", sessionId |-> "", sessionDescription |-> "",
     sessionLabels |-> <<>>, sessionBaggage |-> EmptyObject]

NewReporter(endpoint, apiKey, sessionID, sessionDescription, sessionLabels, sessionBaggage) ==
    [endpoint           |-> TrimSuffixSlash(endpoint),
     apiKey             |-> apiKey,
     sessionId          |-> sessionID,
     sessionDescription |-> sessionDescription,
     sessionLabels      |-> sessionLabels,
     sessionBaggage     |-> sessionBaggage]

\* StoreSessionId that keeps an id the command line supplied
StoreSessionIdKeepOwn(r, sessionResp) ==
    IF r.sessionId # "" THEN r ELSE [r EXCEPT !.sessionId = sessionResp.Id]

\* r.sessionId = sessionResp.Id
StoreSessionId(r, sessionResp) == [r EXCEPT !.sessionId = sessionResp.Id]

\* NothingToSubmit without the test for the empty list
NothingToSubmitNever(built) == FALSE

\* len(testcases) == 0: nothing is posted
NothingToSubmit(built) == Len(built) = 0

DefaultDescription == "JUnit XML test report"

\* the SessionRequest createSession builds, with the default description
SessionRequest(r) ==
    [Id          |-> r.sessionId,
     Description |-> IF r.sessionDescription = "" THEN DefaultDescription
                     ELSE r.sessionDescription,
     Labels      |-> r.sessionLabels,
     Baggage     |-> r.sessionBaggage]

\* "Failure: " and "Error: ", the literal parts of the two format strings
FailurePrefix == <<"F", "a", "i", "l", "u", "r", "e", ":", " ">>

ErrorPrefix == <<"E", "r", "r", "o", "r", ":", " ">>

\* fmt.Sprintf(prefix + "%s\n%s", message, content)
Sprintf(prefix, message, content) == prefix \o message \o <<"\n">> \o content

\* StatusOf with the Error test ahead of the Failure test
StatusOfErrorFirst(tc) ==
    IF tc.Error # <<>> THEN "error"
    ELSE IF tc.Failure # <<>> THEN "fail"
    ELSE IF tc.Skipped # <<>> THEN "skip"
    ELSE "pass"

\* the status of one test case: the first detail that is not nil decides
StatusOf(tc) ==
    IF tc.Failure # <<>> THEN "fail"
    ELSE IF tc.Error # <<>> THEN "error"
    ELSE IF tc.Skipped # <<>> THEN "skip"
    ELSE "pass"

\* the output of one test case, chosen by the same if/else chain
OutputOf(tc) ==
    IF tc.Failure # <<>> THEN Sprintf(FailurePrefix, tc.Failure[1].Message, tc.Failure[1].Content)
    ELSE IF tc.Error # <<>> THEN Sprintf(ErrorPrefix, tc.Error[1].Message, tc.Error[1].Content)
    ELSE IF tc.Skipped # <<>> THEN tc.Skipped[1].Message
    ELSE <<>>

\* the TestcaseRequest appended for test case tc of suite
TestcaseRequest(sessionId, suite, tc) ==
    [SessionId         |-> sessionId,
     TestcaseName      |-> tc.Name,
     TestcaseClassname |-> tc.Classname,
     Testsuite         |-> suite.Name,
     Status            |-> StatusOf(tc),
     Output            |-> OutputOf(tc)]

\* the inner loop of submitResults over one suite's test cases
SuiteTestcases(sessionId, suite) ==
    [j \in 1..Len(suite.TestCases) |-> TestcaseRequest(sessionId, suite, suite.TestCases[j])]

\* BuildTestcases with each suite's records put in front of those built before
RECURSIVE BuildTestcasesPrepend(_, _)
BuildTestcasesPrepend(sessionId, suites) ==
    IF suites = <<>> THEN <<>>
    ELSE BuildTestcasesPrepend(sessionId, Tail(suites)) \o SuiteTestcases(sessionId, Head(suites))

\* the outer loop of submitResults: appends suite after suite
RECURSIVE BuildTestcases(_, _)
BuildTestcases(sessionId, suites) ==
    IF suites = <<>> THEN <<>>
    ELSE SuiteTestcases(sessionId, Head(suites)) \o BuildTestcases(sessionId, Tail(suites))

----------------------------------------------------------------------------
(* The inputs the model draws from.                                        *)

\* the detail children a <testcase> element can carry
FailureElem == <<[Message |-> <<"f">>, Content |-> <<"x">>]>>

ErrorElem == <<[Message |-> <<"e">>, Content |-> <<"y">>]>>

SkippedElem == <<[Message |-> <<"s">>]>>

\* every combination of present and absent details, the malformed ones with
\* more than one detail included
CaseKinds ==
    [failure : {<<>>, FailureElem}, error : {<<>>, ErrorElem}, skipped : {<<>>, SkippedElem}]

PassKind == [failure |-> <<>>, error |-> <<>>, skipped |-> <<>>]

\* the j-th <testcase> of the i-th suite; names tell the positions apart
CaseElem(i, j, kind) ==
    [name      |-> "Test" \o ToString(i) \o "_" \o ToString(j),
     classname |-> IF j % 2 = 1 THEN "cls" \o ToString(i) ELSE "",
     failure   |-> kind.failure,
     error     |-> kind.error,
     skipped   |-> kind.skipped]

\* attribute text of a suite without any attribute but name
NoAttrs ==
    [tests |-> <<>>, failures |-> <<>>, errors |-> <<>>, skipped |-> <<>>,
     time |-> <<>>, timestamp |-> <<>>]

\* the i-th <testsuite>, with the given attributes and kinds of test cases
SuiteElem(i, attrs, kinds) ==
    [name  |-> "pkg" \o ToString(i),
     attrs |-> attrs,
     cases |-> [j \in 1..Len(kinds) |-> CaseElem(i, j, kinds[j])]]

\* a well-formed document with root <testsuites>; shape[i] lists the kinds of
\* the test cases of suite i, attrs are the attributes of the first suite
DocOf(shape, attrs) ==
    [wellFormed |-> TRUE,
     root       |-> "testsuites",
     suites     |-> [i \in 1..Len(shape) |->
                        SuiteElem(i, IF i = 1 THEN attrs ELSE NoAttrs, shape[i])]]

SeqsUpTo(S, n) == UNION {[1..k -> S] : k \in 0..n}

\* a passing, a failing and a skipped test case
PlainKinds ==
    {PassKind, [PassKind EXCEPT !.failure = FailureElem], [PassKind EXCEPT !.skipped = SkippedElem]}

\* every report of at most MaxSuites suites of at most MaxCases plain test cases
SuiteDocs == {DocOf(shape, NoAttrs) : shape \in SeqsUpTo(SeqsUpTo(PlainKinds, MaxCases), MaxSuites)}

\* every report of one suite of at most MaxCases test cases of any kind
DetailDocs == {DocOf(<<kinds>>, NoAttrs) : kinds \in SeqsUpTo(CaseKinds, MaxCases)}

\* attribute text: absent, empty, a number in blanks, not a number
CountTexts == {<<>>, <<<<>>>>, <<<<" ", "3">>>>, <<<<"x">>>>}

TimeTexts == {<<>>, <<<<"x">>>>}

AttrProfiles ==
    {[tests |-> c[1], failures |-> c[2], errors |-> c[3], skipped |-> c[4],
      time |-> t, timestamp |-> t] : c \in [1..4 -> CountTexts], t \in TimeTexts}

\* the shapes of the reports a whole run is fed
RunShapes ==
    {<< >>,
     << <<>> >>,
     << <<>>, <<>> >>,
     << <<PassKind, [PassKind EXCEPT !.failure = FailureElem]>> >>,
     << <<[failure |-> FailureElem, error |-> ErrorElem, skipped |-> SkippedElem]>>,
        <<[PassKind EXCEPT !.skipped = SkippedElem], [PassKind EXCEPT !.error = ErrorElem]>> >>}

NotXml == [wellFormed |-> FALSE, root |-> "", suites |-> <<>>]

SingleSuiteRoot == [wellFormed |-> TRUE, root |-> "testsuite", suites |-> <<>>]

RunDocs == {DocOf(shape, a) : shape \in RunShapes, a \in AttrProfiles} \cup {NotXml, SingleSuiteRoot}

\* "ci,tag=value, ,env="
ExampleLabels ==
    <<"c", "i", ",", "t", "a", "g", "=", "v", "a", "l", "u", "e", ",", " ", ",", "e", "n", "v", "=">>

LabelAlphabet == {"a", "=", ",", " "}

LabelTexts == SeqsUpTo(LabelAlphabet, MaxLen) \cup {ExampleLabels}

\* the command lines of a whole run
RunFlags ==
    [endpoint           : {<<"h", "/">>, <<"h", "\n">>},
     apiKey             : {"key"},
     xmlFile            : {"-", "report.xml"},
     sessionID          : {"", "cli-1"},
     sessionDescription : {"", "nightly"},
     sessionLabels      : {<<>>, ExampleLabels},
     sessionBaggage     : {"", "{\"k\":\"v\"}", "{"}]

\* the command lines that vary the label list only
LabelFlags ==
    [endpoint           : {<<"h">>},
     apiKey             : {"key"},
     xmlFile            : {"-"},
     sessionID          : {""},
     sessionDescription : {""},
     sessionLabels      : LabelTexts,
     sessionBaggage     : {""}]

\* what client.Do can come back with
TransportFailure == [transportError |-> TRUE, status |-> NoStatus, body |-> NoBody]

Http(status, body) == [transportError |-> FALSE, status |-> status, body |-> body]

JsonId(id) == [isObject |-> TRUE, fields |-> Field("id", id), text |-> ""]

EmptyJson == [isObject |-> TRUE, fields |-> EmptyObject, text |-> ""]

Garbage == [isObject |-> FALSE, fields |-> EmptyObject, text |-> "oops"]

SessionResponses ==
    {TransportFailure, Http(500, Garbage), Http(200, JsonId("srv-1")),
     Http(StatusCreated, Garbage), Http(StatusCreated, EmptyJson),
     Http(StatusCreated, JsonId("srv-1")), Http(StatusCreated, JsonId("cli-1"))}

TestcasesResponses ==
    {TransportFailure, Http(500, Garbage), Http(200, EmptyJson), Http(StatusCreated, EmptyJson)}

----------------------------------------------------------------------------
(* The steps of run().                                                     *)

\* run, src/main.go:266-283: read the flags, parse labels and baggage, build
\* the Reporter
Configure ==
    /\ pc = "run"
    /\ LET sessionLabels == parseLabels(flags.sessionLabels)
           baggage == IF flags.sessionBaggage # ""
                      THEN JsonUnmarshalMap(flags.sessionBaggage)
                      ELSE [ok |-> TRUE, val |-> EmptyObject]
       IN  IF ~baggage.ok
           THEN /\ err' = Errorf(<<"parse session baggage">>, NoStatus, NoBody)
                /\ pc' = "done"
                /\ UNCHANGED reporter
           ELSE /\ reporter' = NewReporter(flags.endpoint, flags.apiKey, flags.sessionID,
                                           flags.sessionDescription, sessionLabels, baggage.val)
                /\ pc' = "createSession"
                /\ UNCHANGED err
    /\ UNCHANGED <<flags, xmlData, testsuites, testcases, requests, responses>>

\* run, src/main.go:285-287, with the whole of Reporter.createSession
CreateSession ==
    /\ pc = "createSession"
    /\ LET httpReq == NewRequest(reporter, SessionsPath,
                                 MarshalSessionRequest(SessionRequest(reporter)))
       IN  IF ~ValidURL(reporter.endpoint)
           THEN /\ err' = Errorf(<<"create session", "create session request">>, NoStatus, NoBody)
                /\ pc' = "done"
                /\ UNCHANGED <<reporter, requests, responses>>
           ELSE \E resp \in SessionResponses :
                /\ requests' = Append(requests, httpReq)
                /\ responses' = Append(responses, resp)
                /\ IF resp.transportError
                   THEN /\ err' = Errorf(<<"create session", "send session request">>,
                                         NoStatus, NoBody)
                        /\ pc' = "done"
                        /\ UNCHANGED reporter
                   ELSE IF ~IsCreated(resp.status)
                   THEN /\ err' = Errorf(<<"create session", "create session failed">>,
                                         resp.status, resp.body)
                        /\ pc' = "done"
                        /\ UNCHANGED reporter
                   ELSE LET sessionResp == DecodeSessionResponse(resp.body)
                        IN  IF ~sessionResp.ok
                            THEN /\ err' = Errorf(<<"create session", "decode session response">>,
                                                  NoStatus, NoBody)
                                 /\ pc' = "done"
                                 /\ UNCHANGED reporter
                            ELSE /\ reporter' = StoreSessionId(reporter, sessionResp.val)
                                 /\ pc' = "readInput"
                                 /\ UNCHANGED err
    /\ UNCHANGED <<flags, xmlData, testsuites, testcases>>

\* run, src/main.go:289-302: read stdin when the file is "-", the file
\* otherwise; the read fails or yields a document
ReadInput ==
    /\ pc = "readInput"
    /\ \/ /\ err' = Errorf(<<IF flags.xmlFile = "-" THEN "read from stdin" ELSE "read file">>,
                           NoStatus, NoBody)
          /\ pc' = "done"
          /\ UNCHANGED xmlData
       \/ \E doc \in RunDocs :
          /\ xmlData' = <<doc>>
          /\ pc' = "parseXML"
          /\ UNCHANGED err
    /\ UNCHANGED <<flags, reporter, testsuites, testcases, requests, responses>>

\* ParseXML with the error of xml.Unmarshal dropped
ParseXMLIgnoresError ==
    /\ pc = "parseXML"
    /\ testsuites' = XmlUnmarshal(xmlData[1]).val
    /\ pc' = "submitResults"
    /\ UNCHANGED <<flags, reporter, xmlData, testcases, requests, responses, err>>

\* run, src/main.go:304-307
ParseXML ==
    /\ pc = "parseXML"
    /\ LET parsed == XmlUnmarshal(xmlData[1])
       IN  IF ~parsed.ok
           THEN /\ err' = Errorf(<<"parse XML">>, NoStatus, NoBody)
                /\ pc' = "done"
                /\ UNCHANGED testsuites
           ELSE /\ testsuites' = parsed.val
                /\ pc' = "submitResults"
                /\ UNCHANGED err
    /\ UNCHANGED <<flags, reporter, xmlData, testcases, requests, responses>>

\* run, src/main.go:309-313, with the whole of Reporter.submitResults
\* (json.Marshal cannot fail on these structs, and http.NewRequest cannot
\* fail here: it is given the endpoint createSession's request was built from)
SubmitResults ==
    /\ pc = "submitResults"
    /\ LET built == BuildTestcases(reporter.sessionId, testsuites.TestSuites)
           httpReq == NewRequest(reporter, TestcasesPath,
                                 MarshalTestcasesRequest([Testcases |-> built]))
       IN  /\ testcases' = built
           /\ IF NothingToSubmit(built)
              THEN /\ pc' = "done"
                   /\ UNCHANGED <<err, requests, responses>>
              ELSE \E resp \in TestcasesResponses :
                   /\ requests' = Append(requests, httpReq)
                   /\ responses' = Append(responses, resp)
                   /\ pc' = "done"
                   /\ IF resp.transportError
                      THEN err' = Errorf(<<"submit results", "send testcases request">>,
                                         NoStatus, NoBody)
                      ELSE IF ~IsCreated(resp.status)
                      THEN err' = Errorf(<<"submit results", "submit testcases failed">>,
                                         resp.status, resp.body)
                      ELSE UNCHANGED err
    /\ UNCHANGED <<flags, reporter, xmlData, testsuites>>

----------------------------------------------------------------------------
(* Specifications.                                                         *)

Zero ==
    /\ reporter = ZeroReporter
    /\ xmlData = <<>>
    /\ testsuites = ZeroTestSuites
    /\ testcases = <<>>
    /\ requests = <<>>
    /\ responses = <<>>
    /\ err = NoError

\* a whole run, from the command line on
Init ==
    /\ pc = "run"
    /\ flags \in RunFlags
    /\ Zero

Next == Configure \/ CreateSession \/ ReadInput \/ ParseXML \/ SubmitResults

Spec == Init /\ [][Next]_vars

\* parseLabels on every label list up to MaxLen characters
InitLabels ==
    /\ pc = "run"
    /\ flags \in LabelFlags
    /\ Zero

NextLabels == Configure

SpecLabels == InitLabels /\ [][NextLabels]_vars

\* submitResults called with the report of doc on a Reporter that holds a
\* session id
SubmitCall(doc) ==
    /\ pc = "submitResults"
    /\ flags \in {f \in LabelFlags : f.sessionLabels = <<>>}
    /\ reporter = StoreSessionId(NewReporter(flags.endpoint, flags.apiKey, flags.sessionID,
                                              flags.sessionDescription, <<>>, EmptyObject),
                                  [Id |-> "srv-1"])
    /\ xmlData = <<doc>>
    /\ testsuites = XmlUnmarshal(doc).val
    /\ testcases = <<>>
    /\ requests = <<>>
    /\ responses = <<>>
    /\ err = NoError

\* submitResults on every report of at most MaxSuites suites of at most
\* MaxCases plain test cases
InitSubmit == \E doc \in SuiteDocs : SubmitCall(doc)

NextSubmit == SubmitResults

SpecSubmit == InitSubmit /\ [][NextSubmit]_vars

\* submitResults on every suite of at most MaxCases test cases, each with
\* any combination of details
InitDetails == \E doc \in DetailDocs : SubmitCall(doc)

NextDetails == SubmitResults

SpecDetails == InitDetails /\ [][NextDetails]_vars

----------------------------------------------------------------------------
(* Properties.                                                             *)

\* submitResults has been called and has returned
SubmitResultsReturned ==
    pc = "done" /\ (err.chain = <<>> \/ err.chain[1] = "submit results")

RECURSIVE SumLens(_)
SumLens(suites) ==
    IF suites = <<>> THEN 0 ELSE Len(Head(suites).TestCases) + SumLens(Tail(suites))

\* the number of test cases of the report, all suites together
TotalCases == SumLens(testsuites.TestSuites)

\* the number of test cases in the suites before suite i
CasesBefore(i) == SumLens(SubSeq(testsuites.TestSuites, 1, i - 1))

\* the positions <<suite, case>> of the report's test cases
CasePositions ==
    UNION {{<<i, j>> : j \in 1..Len(testsuites.TestSuites[i].TestCases)} :
              i \in 1..Len(testsuites.TestSuites)}

\* C1: once submitResults has returned, the record list has one entry per
\* test case of the report, and the j-th case of the i-th suite is the record
\* at position (cases of suites 1..i-1) + j, with that case's name and
\* classname and that suite's name.
C1_RecordsInDocumentOrder ==
    SubmitResultsReturned =>
        /\ Len(testcases) = TotalCases
        /\ \A p \in CasePositions :
              LET suite == testsuites.TestSuites[p[1]]
                  tc    == suite.TestCases[p[2]]
                  rec   == testcases[CasesBefore(p[1]) + p[2]]
              IN  /\ rec.TestcaseName = tc.Name
                  /\ rec.TestcaseClassname = tc.Classname
                  /\ rec.Testsuite = suite.Name

\* a report of two suites with two cases each has been turned into records
C1_Witness ==
    /\ SubmitResultsReturned
    /\ Len(testsuites.TestSuites) = 2
    /\ \A i \in 1..2 : Len(testsuites.TestSuites[i].TestCases) = 2
    /\ Len(testcases) = 4

\* the test case a record position stands for
CaseAt(k) ==
    LET p == CHOOSE q \in CasePositions : CasesBefore(q[1]) + q[2] = k
    IN  testsuites.TestSuites[p[1]].TestCases[p[2]]

\* C2: the status and output of every record follow the first present
\* detail of its test case in the order Failure, Error, Skipped:
\* fail and "Failure: " message newline body; error and "Error: " message
\* newline body; skip and the skip message; otherwise pass and no output.
C2_FirstPresentDetailDecides ==
    SubmitResultsReturned =>
        \A k \in 1..Len(testcases) :
            LET tc  == CaseAt(k)
                rec == testcases[k]
            IN  IF tc.Failure # <<>>
                THEN /\ rec.Status = "fail"
                     /\ rec.Output = <<"F", "a", "i", "l", "u", "r", "e", ":", " ">>
                                     \o tc.Failure[1].Message \o <<"\n">> \o tc.Failure[1].Content
                ELSE IF tc.Error # <<>>
                THEN /\ rec.Status = "error"
                     /\ rec.Output = <<"E", "r", "r", "o", "r", ":", " ">>
                                     \o tc.Error[1].Message \o <<"\n">> \o tc.Error[1].Content
                ELSE IF tc.Skipped # <<>>
                THEN /\ rec.Status = "skip"
                     /\ rec.Output = tc.Skipped[1].Message
                ELSE /\ rec.Status = "pass"
                     /\ rec.Output = <<>>

\* records exist for a case with Failure and Error together and for one with
\* Error and Skipped but no Failure
C2_Witness ==
    /\ SubmitResultsReturned
    /\ \E k \in 1..Len(testcases) :
          CaseAt(k).Failure # <<>> /\ CaseAt(k).Error # <<>> /\ testcases[k].Status = "fail"
    /\ \E k \in 1..Len(testcases) :
          /\ CaseAt(k).Failure = <<>> /\ CaseAt(k).Error # <<>> /\ CaseAt(k).Skipped # <<>>
          /\ testcases[k].Status = "error"

\* the requests issued so far to the endpoint with the given path
RequestsTo(path) == {i \in 1..Len(requests) : requests[i].path = path}

\* run() has returned the error of a failed read or a failed parse
InputError ==
    /\ pc = "done"
    /\ err.chain # <<>>
    /\ err.chain[1] \in {"read from stdin", "read file", "parse XML"}

\* the document read is one xml.Unmarshal rejects, and ParseXML has run
ParseFailed ==
    /\ xmlData # <<>>
    /\ pc # "parseXML"
    /\ ~XmlUnmarshal(xmlData[1]).ok

SessionCreationFailed ==
    /\ Len(responses) >= 1
    /\ \/ responses[1].transportError
       \/ responses[1].status # 201
       \/ ~responses[1].body.isObject

\* C4: when session creation fails (transport failure, a status other than
\* 201, or an undecodable 201 body) the run halts with an error labelled
\* "create session", and no request to the test-case-submission endpoint is
\* issued.
C4_SessionFailureHaltsRun ==
    SessionCreationFailed =>
        /\ pc = "done"
        /\ err.chain # <<>>
        /\ err.chain[1] = "create session"
        /\ RequestsTo(TestcasesPath) = {}
        /\ Len(requests) = 1
        /\ testcases = <<>>

\* the session endpoint answered 201 with a body that is not a JSON object
C4_Witness ==
    /\ SessionCreationFailed
    /\ responses[1].status = 201
    /\ ~responses[1].body.isObject
    /\ pc = "done"

\* C5: for a report without any test case, submitResults builds an empty
\* list, issues no request to the test-case-submission endpoint and returns
\* nil, so run() returns nil.
C5_EmptyReportIsNoOpSuccess ==
    (pc = "done" /\ xmlData # <<>> /\ ~ParseFailed /\ TotalCases = 0) =>
        /\ testcases = <<>>
        /\ RequestsTo(TestcasesPath) = {}
        /\ err = NoError

\* a run over a report of two suites without test cases has ended
C5_Witness ==
    /\ pc = "done"
    /\ xmlData # <<>>
    /\ Len(xmlData[1].suites) = 2
    /\ Len(testsuites.TestSuites) = 2
    /\ TotalCases = 0
    /\ err = NoError

\* the id the session endpoint's 201 body names ("" when it names none)
ReturnedId ==
    IF "id" \in DOMAIN responses[1].body.fields THEN responses[1].body.fields["id"] ELSE ""

SessionCreated ==
    /\ Len(responses) >= 1
    /\ ~responses[1].transportError
    /\ responses[1].status = 201
    /\ responses[1].body.isObject

\* C6: once session creation has succeeded, every record built, and every
\* record of the batch posted, carries as sessionId the id of the 201 body,
\* whatever id the command line supplied.
C6_ReturnedIdStamped ==
    SessionCreated =>
        /\ reporter.sessionId = ReturnedId
        /\ \A k \in 1..Len(testcases) : testcases[k].SessionId = ReturnedId
        /\ \A i \in RequestsTo(TestcasesPath) :
              \A k \in 1..Len(requests[i].body["testcases"]) :
                  requests[i].body["testcases"][k]["sessionId"] = ReturnedId

\* a batch of several records was posted in a run whose command line named
\* an id other than the one the server returned
C6_Witness ==
    /\ SessionCreated
    /\ flags.sessionID = "cli-1"
    /\ ReturnedId = "srv-1"
    /\ requests[1].body["id"] = "cli-1"
    /\ RequestsTo(TestcasesPath) = {2}
    /\ Len(requests[2].body["testcases"]) >= 2

\* the document read is well-formed XML whose root element is <testsuites>
StructurallyValid ==
    /\ xmlData # <<>>
    /\ xmlData[1].wellFormed
    /\ xmlData[1].root = "testsuites"

CountAttrs(e) == {e.attrs.tests, e.attrs.failures, e.attrs.errors, e.attrs.skipped}

\* a count attribute that is present, not empty and, blanks around it
\* removed, is not an optional sign followed by decimal digits
NotAnInteger(attr) ==
    /\ attr # <<>>
    /\ attr[1] # <<>>
    /\ LET t    == TrimSpace(attr[1])
           body == IF t # <<>> /\ t[1] \in {"+", "-"} THEN SubSeq(t, 2, Len(t)) ELSE t
       IN  body = <<>> \/ \E i \in 1..Len(body) : body[i] \notin {Digits[d] : d \in 1..10}

SomeCountNotAnInteger ==
    \E i \in 1..Len(xmlData[1].suites) :
        \E attr \in CountAttrs(xmlData[1].suites[i]) : NotAnInteger(attr)

\* C7 as stated: a well-formed document with root <testsuites> is never
\* rejected by the parse, whatever text its suites' count, time and
\* timestamp attributes hold.
C7_MalformedAttributeNeverFailsParse ==
    (StructurallyValid /\ pc # "parseXML") => err.chain # <<"parse XML">>

\* C7 amended: a well-formed document with root <testsuites> is rejected by
\* the parse exactly when some suite's tests, failures, errors or skipped
\* attribute holds non-empty text that is not a decimal integer.  Absent or
\* empty count attributes and any text in time and timestamp leave the parse
\* successful: the report is built, its time text kept as read, and the run
\* goes on to submitResults.
C7_OnlyNonIntegerCountFailsParse ==
    (StructurallyValid /\ pc # "parseXML") =>
        IF SomeCountNotAnInteger
        THEN pc = "done" /\ err.chain = <<"parse XML">>
        ELSE /\ err.chain # <<"parse XML">>
             /\ pc = "submitResults" \/ SubmitResultsReturned
             /\ Len(testsuites.TestSuites) = Len(xmlData[1].suites)
             /\ \A i \in 1..Len(testsuites.TestSuites) :
                   /\ testsuites.TestSuites[i].Name = xmlData[1].suites[i].name
                   /\ xmlData[1].suites[i].attrs.time # <<>> =>
                         testsuites.TestSuites[i].Time = xmlData[1].suites[i].attrs.time[1]

\* a report whose suite has time and timestamp that are no number and no
\* date, an empty tests attribute and no errors attribute was parsed and
\* handed to submitResults
C7_Witness ==
    /\ StructurallyValid
    /\ pc = "submitResults"
    /\ Len(testsuites.TestSuites) >= 1
    /\ xmlData[1].suites[1].attrs.time = <<<<"x">>>>
    /\ xmlData[1].suites[1].attrs.timestamp = <<<<"x">>>>
    /\ xmlData[1].suites[1].attrs.tests = <<<<>>>>
    /\ xmlData[1].suites[1].attrs.errors = <<>>
    /\ testsuites.TestSuites[1].Time = <<"x">>

\* the positions of the commas of s, with 0 in front and Len(s) + 1 behind
Bounds(s) == {0, Len(s) + 1} \cup {i \in 1..Len(s) : s[i] = ","}

\* the text between two neighbouring bounds
Tokens(s) ==
    {<<a, b>> \in Bounds(s) \X Bounds(s) : a < b /\ \A c \in Bounds(s) : ~(a < c /\ c < b)}

NonBlank(s, t) == \E i \in (t[1] + 1)..(t[2] - 1) : s[i] \notin {" ", "\t", "\n", "\r"}

\* the token without the whitespace at its ends
Trimmed(s, t) ==
    LET inner == {i \in (t[1] + 1)..(t[2] - 1) : s[i] \notin {" ", "\t", "\n", "\r"}}
        first == CHOOSE i \in inner : \A j \in inner : i <= j
        last  == CHOOSE i \in inner : \A j \in inner : j <= i
    IN  SubSeq(s, first, last)

\* how many non-blank tokens start before token t
Rank(s, t) == Cardinality({u \in Tokens(s) : NonBlank(s, u) /\ u[1] < t[1]})

\* C8: parseLabels yields one label per comma-separated token that is not
\* blank, in input order; the label's key is the trimmed token when it has no
\* '=' (and the label has no value), else the text before the first '=' with
\* the text after it as value; the empty string yields no labels, and
\* "ci,tag=value, ,env=" yields ci, tag=value and env with an empty value.
C8_ParseLabels ==
    pc = "createSession" =>
        LET s      == flags.sessionLabels
            labels == reporter.sessionLabels
        IN  /\ Len(labels) = Cardinality({t \in Tokens(s) : NonBlank(s, t)})
            /\ \A t \in Tokens(s) :
                  NonBlank(s, t) =>
                      LET l   == labels[Rank(s, t) + 1]
                          tok == Trimmed(s, t)
                      IN  /\ \A i \in 1..Len(l.Key) : l.Key[i] # "="
                          /\ IF \E i \in 1..Len(tok) : tok[i] = "="
                             THEN tok = l.Key \o <<"=">> \o l.Value
                             ELSE tok = l.Key /\ l.Value = <<>>
            /\ s = <<>> => labels = <<>>
            /\ s = ExampleLabels =>
                  labels = <<[Key |-> <<"c", "i">>, Value |-> <<>>],
                             [Key |-> <<"t", "a", "g">>, Value |-> <<"v", "a", "l", "u", "e">>],
                             [Key |-> <<"e", "n", "v">>, Value |-> <<>>]>>

\* "ci,tag=value, ,env=" has been parsed into three labels
C8_Witness ==
    /\ pc = "createSession"
    /\ flags.sessionLabels = ExampleLabels
    /\ Len(reporter.sessionLabels) = 3

\* C9: a run issues at most one request to each endpoint; the submission
\* request comes second, after a session request answered 201 Created, and
\* its body holds every record of the batch, in order.
C9_OneRequestEachWholeBatch ==
    /\ Cardinality(RequestsTo(SessionsPath)) <= 1
    /\ Cardinality(RequestsTo(TestcasesPath)) <= 1
    /\ Len(requests) = Cardinality(RequestsTo(SessionsPath)) + Cardinality(RequestsTo(TestcasesPath))
    /\ Len(responses) = Len(requests)
    /\ \A i \in RequestsTo(TestcasesPath) :
          /\ i = 2
          /\ requests[1].path = SessionsPath
          /\ ~responses[1].transportError
          /\ responses[1].status = 201
          /\ LET sent == requests[i].body["testcases"]
             IN  /\ Len(sent) = TotalCases
                 /\ Len(sent) = Len(testcases)
                 /\ \A k \in 1..Len(sent) :
                       /\ sent[k]["testcaseName"] = testcases[k].TestcaseName
                       /\ sent[k]["status"] = testcases[k].Status
                       /\ sent[k]["sessionId"] = testcases[k].SessionId

\* a batch of three records was posted, and rejected, and the run is over
C9_Witness ==
    /\ pc = "done"
    /\ Len(requests) = 2
    /\ requests[2].path = TestcasesPath
    /\ Len(requests[2].body["testcases"]) = 3
    /\ responses[2].status = 500

\* the submission call came back without a 201 response
SubmissionFailed ==
    /\ Len(responses) = 2
    /\ responses[2].transportError \/ responses[2].status # 201

\* C10: a submission answered by a transport failure or by a status other
\* than 201 ends the run with an error labelled "submit results" that
\* carries the status and body received, with no request after it; run()
\* returns nil only when the session request was answered 201 and either
\* nothing was to be submitted or the submission was answered 201.
C10_SubmissionFailureFailsRun ==
    /\ SubmissionFailed =>
          /\ pc = "done"
          /\ err.chain # <<>>
          /\ err.chain[1] = "submit results"
          /\ Len(requests) = 2
          /\ ~responses[2].transportError =>
                err.status = responses[2].status /\ err.body = responses[2].body
    /\ (pc = "done" /\ err = NoError) =>
          /\ Len(responses) >= 1
          /\ ~responses[1].transportError
          /\ responses[1].status = 201
          /\ \/ testcases = <<>> /\ Len(requests) = 1
             \/ /\ Len(responses) = 2
                /\ ~responses[2].transportError
                /\ responses[2].status = 201
    /\ Len(requests) <= 2

\* a submission was answered 200 OK, which is not Created
C10_Witness ==
    /\ SubmissionFailed
    /\ ~responses[2].transportError
    /\ responses[2].status = 200
    /\ err.status = 200
    /\ pc = "done"

====
